---- MODULE Spec2Model ----
(***************************************************************************)
(* The event-escrow contract of contract/src/lib.rs as a state machine.    *)
(*                                                                         *)
(* State: the four persistent collections of struct Contract; the host's   *)
(* block timestamp; the receipt of the last call (the call, its result and *)
(* the transfers it issued); and the host's ledger per event: the deposits *)
(* accepted for it, the batches of transfers issued for it and, of these,  *)
(* the transfers whose execution failed.                                   *)
(*                                                                         *)
(* A call that panics (expect, unwrap) is rolled back by the host: the     *)
(* contract state is left as it was and the attached deposit is returned.  *)
(*                                                                         *)
(* Balance is u128 in the source.  Amounts are kept far below 2^128 here:  *)
(* the host's balances are u128 themselves, so the deposits a contract     *)
(* holds, and with them price * len(cur_participants), cannot exceed it.   *)
(***************************************************************************)
EXTENDS Integers, Sequences, FiniteSets, TLC

VARIABLES event_ids, events, events_by_owner, events_by_participants,
          block_timestamp, call, result, transfers, deposited, paid, refused

vars == <<event_ids, events, events_by_owner, events_by_participants,
          block_timestamp, call, result, transfers, deposited, paid, refused>>

contract == <<event_ids, events, events_by_owner, events_by_participants>>

ledger == <<deposited, paid, refused>>

----------------------------------------------------------------------------
(* Bounds of the model *)

\* spec.max_num ranges over 0..MaxNum, spec.min_num over 0..MaxNum+1
MaxNum == 2

\* spec.price ranges over 1..MaxPrice
MaxPrice == 1

\* block_timestamp and spec.deadline range over 0..MaxTime
MaxTime == 1

\* number of events the registry runs (SpecRegistry) create
MaxEvents == 2

\* yoctoNEAR per unit of spec.price: 1_000_000_000_000_000_000_000 in the
\* source, scaled down so that amounts are small integers
MilliNear == 2

Accounts == {"alice", "bob", "carol"}

\* the accounts that create events
Creators == {"alice", "bob"}

\* the accounts named as beneficiary: a creator and an account that is none
Beneficiaries == {"alice", "carol"}

\* the specs of the single-event runs (Spec)
EventSpecs == [max_num : 0..MaxNum, min_num : 0..(MaxNum + 1),
               price : 1..MaxPrice, deadline : 0..MaxTime,
               beneficiary : Beneficiaries]

\* the specs of the registry runs (SpecRegistry): one slot
RegistrySpecs == [max_num : {1}, min_num : {1},
                  price : {1}, deadline : {1},
                  beneficiary : {"carol"}]

\* the specs of the runs of two-slot events (SpecOrder): min_num is 3, which
\* Event::new compares with nothing, so that a claim refunds both participants
OrderSpecs == [max_num : {2}, min_num : {3},
               price : {1}, deadline : {1},
               beneficiary : {"carol"}]

\* attached deposits: every price, and amounts below, between and above
Deposits == 0..(MaxPrice * MilliNear + 1)

\* the deposits tried on an event of the given price: the price, less and more
DepositsAround(price) == {d \in Deposits : d - price \in {-1, 0, 1}}

----------------------------------------------------------------------------
(* enum EventStatus *)
WAITING == "WAITING"
FAILED == "FAILED"
SUCCESS == "SUCCESS"

(* results of a call: Ok, or the panic that aborted it *)
Ok == "Ok"
NotFound == "NotFound"            \* expect("Event does not exist")
WrongDeposit == "WrongDeposit"    \* "Participant did not attach the right balance"
AlreadyJoined == "AlreadyJoined"  \* "... has already joined"
EventFull == "EventFull"          \* "Event is already full"
UnwrapNone == "UnwrapNone"        \* Option::unwrap on None

\* Option<T>: None, Some(x) and Option::unwrap on a Some
None == <<>>
Some(x) == <<x>>
Unwrap(opt) == opt[1]

Range(s) == {s[i] : i \in 1..Len(s)}

RECURSIVE SumAmounts(_)
SumAmounts(ts) == IF ts = <<>> THEN 0 ELSE ts[1].amount + SumAmounts(Tail(ts))

\* format!("event_{}", n) counting from one
EventIdOf_OneBased(n) == "event_" \o ToString(n + 1)

\* format!("event_{}", n)
EventIdOf(n) == "event_" \o ToString(n)

\* LookupMap::get(..).unwrap_or_else(|| Vector::new(..)) and
\* LookupMap::get(..).map(|v| v.to_vec()).unwrap_or_default()
GetOrEmpty(map, key) == IF key \in DOMAIN map THEN map[key] ELSE <<>>

\* LookupMap::insert
Insert(map, key, value) ==
  [k \in DOMAIN map \cup {key} |-> IF k = key THEN value ELSE map[k]]

----------------------------------------------------------------------------
(* impl Event *)

Event_new(spec, event_id, owner) ==
  [max_num |-> spec.max_num,
   min_num |-> spec.min_num,
   cur_participants |-> <<>>,
   price |-> spec.price * MilliNear,
   deadline |-> spec.deadline,
   owner |-> owner,
   beneficiary |-> spec.beneficiary,
   status |-> WAITING]

\* Event::join with the capacity check off by one (> for >=)
Event_join_FullOffByOne(event, deposit, account_id) ==
  IF deposit # event.price
    THEN [res |-> WrongDeposit, event |-> event]
  ELSE IF \E i \in 1..Len(event.cur_participants) : event.cur_participants[i] = account_id
    THEN [res |-> AlreadyJoined, event |-> event]
  ELSE IF Len(event.cur_participants) > event.max_num
    THEN [res |-> EventFull, event |-> event]
  ELSE [res |-> Ok,
        event |-> [event EXCEPT !.cur_participants = Append(@, account_id)]]

\* Event::join with the membership loop looking at the first participant only
Event_join_ChecksFirstOnly(event, deposit, account_id) ==
  IF deposit # event.price
    THEN [res |-> WrongDeposit, event |-> event]
  ELSE IF \E i \in 1..Len(event.cur_participants) :
            i = 1 /\ event.cur_participants[i] = account_id
    THEN [res |-> AlreadyJoined, event |-> event]
  ELSE IF Len(event.cur_participants) >= event.max_num
    THEN [res |-> EventFull, event |-> event]
  ELSE [res |-> Ok,
        event |-> [event EXCEPT !.cur_participants = Append(@, account_id)]]

\* Event::join rejecting only a deposit below the price (< for !=)
Event_join_AcceptsOverpay(event, deposit, account_id) ==
  IF deposit < event.price
    THEN [res |-> WrongDeposit, event |-> event]
  ELSE IF \E i \in 1..Len(event.cur_participants) : event.cur_participants[i] = account_id
    THEN [res |-> AlreadyJoined, event |-> event]
  ELSE IF Len(event.cur_participants) >= event.max_num
    THEN [res |-> EventFull, event |-> event]
  ELSE [res |-> Ok,
        event |-> [event EXCEPT !.cur_participants = Append(@, account_id)]]

\* Event::join putting the account first (insert at 0 for push)
Event_join_Prepends(event, deposit, account_id) ==
  IF deposit # event.price
    THEN [res |-> WrongDeposit, event |-> event]
  ELSE IF \E i \in 1..Len(event.cur_participants) : event.cur_participants[i] = account_id
    THEN [res |-> AlreadyJoined, event |-> event]
  ELSE IF Len(event.cur_participants) >= event.max_num
    THEN [res |-> EventFull, event |-> event]
  ELSE [res |-> Ok,
        event |-> [event EXCEPT !.cur_participants = <<account_id>> \o @]]

\* Result<(), Error> together with the event as the call leaves it
Event_join(event, deposit, account_id) ==
  IF deposit # event.price
    THEN [res |-> WrongDeposit, event |-> event]
  ELSE IF \E i \in 1..Len(event.cur_participants) : event.cur_participants[i] = account_id
    THEN [res |-> AlreadyJoined, event |-> event]
  ELSE IF Len(event.cur_participants) >= event.max_num
    THEN [res |-> EventFull, event |-> event]
  ELSE [res |-> Ok,
        event |-> [event EXCEPT !.cur_participants = Append(@, account_id)]]

----------------------------------------------------------------------------
(* impl Contract *)

get_event(event_id) ==
  IF event_id \in DOMAIN events THEN Some(events[event_id]) ELSE None

get_all_events == event_ids

get_events_by_owner(account_id) == GetOrEmpty(events_by_owner, account_id)

get_events_by_participants(account_id) == GetOrEmpty(events_by_participants, account_id)

\* the receipt's record of a call
Call(op, event_id, account_id) ==
  [op |-> op, event_id |-> event_id, account_id |-> account_id]

\* a call that panicked: everything is rolled back, the receipt says why
Abort(why) ==
  /\ result' = why
  /\ transfers' = <<>>
  /\ UNCHANGED <<contract, ledger, block_timestamp>>

start_event(account_id, event_spec) ==
  /\ LET event_id == EventIdOf(Len(event_ids))
         event == Event_new(event_spec, event_id, account_id)
     IN /\ events' = Insert(events, event_id, event)
        /\ events_by_owner' =
             Insert(events_by_owner, account_id,
                    Append(GetOrEmpty(events_by_owner, account_id), event_id))
        /\ event_ids' = Append(event_ids, event_id)
        /\ deposited' = Insert(deposited, event_id, 0)
        /\ paid' = Insert(paid, event_id, <<>>)
        /\ refused' = Insert(refused, event_id, {})
        /\ call' = Call("start_event", event_id, account_id)
  /\ result' = Ok
  /\ transfers' = <<>>
  /\ UNCHANGED <<events_by_participants, block_timestamp>>

\* join skipping an unknown event (if let Some for expect) and indexing it all the same
join_IndexesUnknownEvent(event_id, account_id, deposit) ==
  /\ call' = Call("join", event_id, account_id)
  /\ LET found == get_event(event_id) IN
     IF found = None
       THEN /\ events_by_participants' =
                 Insert(events_by_participants, account_id,
                        Append(GetOrEmpty(events_by_participants, account_id), event_id))
            /\ result' = Ok
            /\ transfers' = <<>>
            /\ UNCHANGED <<event_ids, events, events_by_owner, ledger, block_timestamp>>
     ELSE
       LET joined == Event_join(Unwrap(found), deposit, account_id) IN
       IF joined.res # Ok THEN Abort(joined.res)
       ELSE
         /\ events' = Insert(events, event_id, joined.event)
         /\ events_by_participants' =
              Insert(events_by_participants, account_id,
                     Append(GetOrEmpty(events_by_participants, account_id), event_id))
         /\ deposited' = [deposited EXCEPT ![event_id] = @ + deposit]
         /\ result' = Ok
         /\ transfers' = <<>>
         /\ UNCHANGED <<event_ids, events_by_owner, paid, refused, block_timestamp>>

\* join storing a fresh index vector of the one event (no get of the old one)
join_IndexOverwritten(event_id, account_id, deposit) ==
  /\ call' = Call("join", event_id, account_id)
  /\ LET found == get_event(event_id) IN
     IF found = None THEN Abort(NotFound)
     ELSE
       LET joined == Event_join(Unwrap(found), deposit, account_id) IN
       IF joined.res # Ok THEN Abort(joined.res)
       ELSE
         /\ events' = Insert(events, event_id, joined.event)
         /\ events_by_participants' =
              Insert(events_by_participants, account_id, <<event_id>>)
         /\ deposited' = [deposited EXCEPT ![event_id] = @ + deposit]
         /\ result' = Ok
         /\ transfers' = <<>>
         /\ UNCHANGED <<event_ids, events_by_owner, paid, refused, block_timestamp>>

\* #[payable]: deposit is env::attached_deposit()
join(event_id, account_id, deposit) ==
  /\ call' = Call("join", event_id, account_id)
  /\ LET found == get_event(event_id) IN
     IF found = None THEN Abort(NotFound)
     ELSE
       LET joined == Event_join(Unwrap(found), deposit, account_id) IN
       IF joined.res # Ok THEN Abort(joined.res)
       ELSE
         /\ events' = Insert(events, event_id, joined.event)
         /\ events_by_participants' =
              Insert(events_by_participants, account_id,
                     Append(GetOrEmpty(events_by_participants, account_id), event_id))
         /\ deposited' = [deposited EXCEPT ![event_id] = @ + deposit]
         /\ result' = Ok
         /\ transfers' = <<>>
         /\ UNCHANGED <<event_ids, events_by_owner, paid, refused, block_timestamp>>

\* Promise::new(acc).transfer(amount)
Transfer(acc, amount) == [to |-> acc, amount |-> amount]

\* the fold without p.and(..): each step replaces the promise built so far
RECURSIVE RefundFold_DropsChain(_, _, _, _)
RefundFold_DropsChain(participants, price, i, p) ==
  IF i > Len(participants) THEN p
  ELSE RefundFold_DropsChain(participants, price, i + 1,
                             Some(<<Transfer(participants[i], price)>>))

\* cur_participants.iter().fold(None, |p, acc| ...): the promise built from the
\* participants from index i on, p being the promise built so far
RECURSIVE RefundFold(_, _, _, _)
RefundFold(participants, price, i, p) ==
  IF i > Len(participants) THEN p
  ELSE RefundFold(participants, price, i + 1,
                  IF p # None
                    THEN Some(Append(Unwrap(p), Transfer(participants[i], price)))
                    ELSE Some(<<Transfer(participants[i], price)>>))

\* claim paying the beneficiary for min_num participants instead of all of them
Resolve_PaysMinNum(event) ==
  IF Len(event.cur_participants) < event.min_num
    THEN LET p == RefundFold(event.cur_participants, event.price, 1, None) IN
         IF p = None THEN [res |-> UnwrapNone]
         ELSE [res |-> Ok, event |-> [event EXCEPT !.status = FAILED],
               promises |-> Unwrap(p)]
    ELSE [res |-> Ok, event |-> [event EXCEPT !.status = SUCCESS],
          promises |-> <<Transfer(event.beneficiary, event.price * event.min_num)>>]

\* the event and the promises of a claim that passes the guard, or the panic
Resolve(event) ==
  IF Len(event.cur_participants) < event.min_num
    THEN LET p == RefundFold(event.cur_participants, event.price, 1, None) IN
         IF p = None THEN [res |-> UnwrapNone]
         ELSE [res |-> Ok, event |-> [event EXCEPT !.status = FAILED],
               promises |-> Unwrap(p)]
    ELSE [res |-> Ok, event |-> [event EXCEPT !.status = SUCCESS],
          promises |-> <<Transfer(event.beneficiary,
                                  event.price * Len(event.cur_participants))>>]

\* claim without the status test
ClaimGuard_NoStatus(event, now) == now >= event.deadline

\* claim testing for SUCCESS only
ClaimGuard_NotSuccess(event, now) == event.status # SUCCESS /\ now >= event.deadline

\* claim without the deadline test
ClaimGuard_NoDeadline(event, now) == event.status = WAITING

\* the condition under which claim resolves the event, now being
\* env::block_timestamp()
ClaimGuard(event, now) == event.status = WAITING /\ now >= event.deadline

claim(event_id) ==
  /\ call' = Call("claim", event_id, "")
  /\ LET found == get_event(event_id) IN
     IF found = None THEN Abort(NotFound)
     ELSE IF ClaimGuard(Unwrap(found), block_timestamp)
       THEN LET r == Resolve(Unwrap(found)) IN
            IF r.res # Ok THEN Abort(r.res)
            ELSE
              /\ events' = Insert(events, event_id, r.event)
              /\ transfers' = r.promises
              /\ paid' = [paid EXCEPT ![event_id] = Append(@, r.promises)]
              /\ result' = Ok
              /\ UNCHANGED <<event_ids, events_by_owner, events_by_participants,
                             deposited, refused, block_timestamp>>
       ELSE
         /\ events' = Insert(events, event_id, Unwrap(found))
         /\ result' = Ok
         /\ transfers' = <<>>
         /\ UNCHANGED <<event_ids, events_by_owner, events_by_participants,
                        ledger, block_timestamp>>

\* the host: env::block_timestamp() never decreases between calls
Tick ==
  /\ block_timestamp < MaxTime
  /\ block_timestamp' = block_timestamp + 1
  /\ UNCHANGED <<contract, ledger, call, result, transfers>>

\* a failing transfer undoing the resolution, as a callback of the promise could
transfer_fails_RollsBack(event_id, i) ==
  /\ event_id \in DOMAIN paid
  /\ paid[event_id] # <<>>
  /\ i \in 1..Len(paid[event_id][1])
  /\ i \notin refused[event_id]
  /\ refused' = [refused EXCEPT ![event_id] = @ \cup {i}]
  /\ events' = [events EXCEPT ![event_id].status = WAITING]
  /\ UNCHANGED <<event_ids, events_by_owner, events_by_participants, deposited, paid,
                 block_timestamp, call, result, transfers>>

\* the host: the i-th transfer that claim issued for event_id fails (its receiver
\* does not exist).  claim attaches no callback to its promises, so no code of the
\* contract runs and the contract state stays as it is
transfer_fails(event_id, i) ==
  /\ event_id \in DOMAIN paid
  /\ paid[event_id] # <<>>
  /\ i \in 1..Len(paid[event_id][1])
  /\ i \notin refused[event_id]
  /\ refused' = [refused EXCEPT ![event_id] = @ \cup {i}]
  /\ UNCHANGED <<contract, deposited, paid, block_timestamp, call, result, transfers>>

----------------------------------------------------------------------------
\* the ids a caller may pass: every event created, and the next one, not yet created
CallIds == Range(event_ids) \cup {EventIdOf(Len(event_ids))}

\* impl Default for Contract
Init ==
  /\ event_ids = <<>>
  /\ events = <<>>
  /\ events_by_owner = <<>>
  /\ events_by_participants = <<>>
  /\ block_timestamp = 0
  /\ call = Call("default", "", "")
  /\ result = Ok
  /\ transfers = <<>>
  /\ deposited = <<>>
  /\ paid = <<>>
  /\ refused = <<>>

\* the deposits a caller attaches to a join on event_id
CallDeposits(event_id) ==
  IF event_id \in DOMAIN events THEN DepositsAround(events[event_id].price)
  ELSE DepositsAround(0)

JoinCall ==
  \E event_id \in CallIds, account_id \in Accounts :
    \E deposit \in CallDeposits(event_id) : join(event_id, account_id, deposit)

ClaimCall == \E event_id \in CallIds : claim(event_id)

\* the runs of one event, with every spec, creator, account and deposit
Next ==
  \/ \E account_id \in Creators, event_spec \in EventSpecs :
        event_ids = <<>> /\ start_event(account_id, event_spec)
  \/ JoinCall
  \/ ClaimCall
  \/ Tick

Spec == Init /\ [][Next]_vars

\* the runs of up to MaxEvents one-slot events, created and joined by Creators
RegistryJoinCall ==
  \E event_id \in CallIds, account_id \in Creators :
    \E deposit \in CallDeposits(event_id) : join(event_id, account_id, deposit)

NextRegistry ==
  \/ \E account_id \in Creators, event_spec \in RegistrySpecs :
        Len(event_ids) < MaxEvents /\ start_event(account_id, event_spec)
  \/ RegistryJoinCall
  \/ ClaimCall
  \/ Tick

SpecRegistry == Init /\ [][NextRegistry]_vars

\* the runs of up to MaxEvents two-slot events of one creator
NextOrder ==
  \/ \E event_spec \in OrderSpecs :
        Len(event_ids) < MaxEvents /\ start_event("alice", event_spec)
  \/ RegistryJoinCall
  \/ ClaimCall
  \/ Tick

SpecOrder == Init /\ [][NextOrder]_vars

\* the runs of one event whose transfers may fail
NextFailures ==
  \/ \E account_id \in Creators, event_spec \in EventSpecs :
        event_ids = <<>> /\ start_event(account_id, event_spec)
  \/ JoinCall
  \/ ClaimCall
  \/ Tick
  \/ \E event_id \in DOMAIN paid, i \in 1..MaxNum : transfer_fails(event_id, i)

SpecFailures == Init /\ [][NextFailures]_vars

\* the runs of one event in which block time advances and claim is called on
\* every event again and again
SpecLive ==
  /\ Spec
  /\ WF_vars(Tick)
  /\ \A k \in 0..(MaxEvents - 1) : WF_vars(claim(EventIdOf(k)))

----------------------------------------------------------------------------
(* What the claims speak of *)

RECURSIVE SumBatches(_)
SumBatches(batches) ==
  IF batches = <<>> THEN 0 ELSE SumAmounts(batches[1]) + SumBatches(Tail(batches))

\* the value held for an event: deposits accepted minus amounts transferred out
Escrow(event_id) == deposited[event_id] - SumBatches(paid[event_id])

Participants(event_id) == events[event_id].cur_participants

Closed(event_id) == events[event_id].status \in {FAILED, SUCCESS}

\* one refund of the price to each participant, in join order
Refunds(event) ==
  [i \in 1..Len(event.cur_participants) |-> Transfer(event.cur_participants[i], event.price)]

\* the pre-state of a claim that passes the guard on event_id
Resolving(event_id) ==
  /\ events[event_id].status = WAITING
  /\ block_timestamp >= events[event_id].deadline
  /\ claim(event_id)

\* the one payout of a SUCCESS resolution
Payout(event) ==
  <<Transfer(event.beneficiary, event.price * Len(event.cur_participants))>>

----------------------------------------------------------------------------
\* C1: a join on an event whose status is FAILED or SUCCESS, whatever the deposit and
\* the account, is rejected as EventClosed and leaves the event's participants, its
\* status and the participant index as they were; participants are only ever added
\* while the status is WAITING.  (The source reports an error as a panic message and
\* has none for a closed event: any rejection is taken for EventClosed here.)
C1_JoinClosedRejected ==
  [][
     /\ \A event_id \in DOMAIN events, account_id \in Accounts, deposit \in Deposits :
          (Closed(event_id) /\ join(event_id, account_id, deposit))
          => /\ result' # Ok
             /\ events'[event_id].cur_participants = events[event_id].cur_participants
             /\ events'[event_id].status = events[event_id].status
             /\ events_by_participants' = events_by_participants
     /\ \A event_id \in DOMAIN events :
          events'[event_id].cur_participants # events[event_id].cur_participants
          => events[event_id].status = WAITING
  ]_vars

\* C2: for every event the escrowed value (deposits accepted by join minus amounts
\* transferred out by claim) is price * len(participants) while the status is WAITING
\* and 0 once it is FAILED or SUCCESS.
C2_EscrowMatchesStatus ==
  \A event_id \in DOMAIN events :
    Escrow(event_id) =
      IF events[event_id].status = WAITING
        THEN events[event_id].price * Len(Participants(event_id))
        ELSE 0

\* C3: a claim at a block time >= deadline on a WAITING event with n < min_num
\* participants, n = 0 included, completes, sets the status to FAILED and issues
\* exactly the n refunds of price, one per participant in join order.
C3_ClaimBelowMinRefundsAll ==
  [][\A event_id \in DOMAIN events :
       (Len(Participants(event_id)) < events[event_id].min_num /\ Resolving(event_id))
       => /\ result' = Ok
          /\ events'[event_id].status = FAILED
          /\ transfers' = Refunds(events[event_id])]_vars

\* C4 as stated: a claim at a block time >= deadline on a WAITING event with
\* n >= min_num participants sets the status to SUCCESS and issues exactly one
\* transfer, of price * n, to the beneficiary; no participant and no owner receives
\* a transfer.
C4_PayoutNeverToOwnerOrParticipant ==
  [][\A event_id \in DOMAIN events :
       (Len(Participants(event_id)) >= events[event_id].min_num /\ Resolving(event_id))
       => /\ events'[event_id].status = SUCCESS
          /\ transfers' = Payout(events[event_id])
          /\ \A i \in 1..Len(transfers') :
               /\ transfers'[i].to \notin Range(Participants(event_id))
               /\ transfers'[i].to # events[event_id].owner]_vars

\* C4 (amended): a claim at a block time >= deadline on a WAITING event with
\* n >= min_num participants completes, sets the status to SUCCESS and issues exactly
\* one transfer, of price * n, to the beneficiary, and no other; a participant or the
\* owner receives it exactly when that account is the beneficiary.
C4_PayoutToBeneficiaryOnly ==
  [][\A event_id \in DOMAIN events :
       (Len(Participants(event_id)) >= events[event_id].min_num /\ Resolving(event_id))
       => /\ result' = Ok
          /\ events'[event_id].status = SUCCESS
          /\ events'[event_id].cur_participants = Participants(event_id)
          /\ transfers' = Payout(events[event_id])
          /\ \A account_id \in Range(Participants(event_id)) \cup {events[event_id].owner} :
               (\E i \in 1..Len(transfers') : transfers'[i].to = account_id)
               <=> account_id = events[event_id].beneficiary]_vars

\* a claim has just paid the price of two participants to a beneficiary who is the
\* owner and one of the participants
C4_Witness ==
  /\ call.op = "claim" /\ result = Ok
  /\ call.event_id \in DOMAIN events
  /\ LET event == events[call.event_id] IN
       /\ event.status = SUCCESS
       /\ Len(event.cur_participants) = 2
       /\ event.price > 0
       /\ event.beneficiary = event.owner
       /\ event.beneficiary \in Range(event.cur_participants)
       /\ transfers = <<Transfer(event.beneficiary, 2 * event.price)>>

\* C5: whenever a claim changes an event's status, the amounts of the transfers it
\* issues add up to price * len(participants) of the event at that moment.
C5_ClaimDisbursesAllCollected ==
  [][\A event_id \in DOMAIN events :
       (events'[event_id].status # events[event_id].status /\ claim(event_id))
       => SumAmounts(transfers') =
            events[event_id].price * Len(Participants(event_id))]_vars

\* a claim has just refunded two participants of a FAILED event
C5_Witness ==
  /\ call.op = "claim" /\ result = Ok
  /\ call.event_id \in DOMAIN events
  /\ LET event == events[call.event_id] IN
       /\ event.status = FAILED
       /\ event.price > 0
       /\ Len(event.cur_participants) = 2
       /\ Len(transfers) = 2
       /\ SumAmounts(transfers) = 2 * event.price

\* C6: a claim on an event that is already FAILED or SUCCESS, at any block time,
\* issues no transfer and leaves the event and every index as they were; so the
\* transfers of an event are all issued by one claim call, and no account is
\* refunded twice.
C6_ClaimOnResolvedIsNoOp ==
  [][
     /\ \A event_id \in DOMAIN events :
          (Closed(event_id) /\ claim(event_id))
          => /\ result' = Ok
             /\ transfers' = <<>>
             /\ UNCHANGED <<contract, ledger>>
     /\ \A event_id \in DOMAIN paid' :
          /\ Len(paid'[event_id]) <= 1
          /\ \A b \in 1..Len(paid'[event_id]) :
               events'[event_id].status = FAILED
               => \A i, j \in 1..Len(paid'[event_id][b]) :
                    paid'[event_id][b][i].to = paid'[event_id][b][j].to => i = j
  ]_vars

\* a claim has just been made on an event that an earlier claim resolved and paid
C6_Witness ==
  /\ call.op = "claim" /\ result = Ok /\ transfers = <<>>
  /\ call.event_id \in DOMAIN events
  /\ Closed(call.event_id)
  /\ Len(paid[call.event_id]) = 1
  /\ Len(paid[call.event_id][1]) >= 1
  /\ events[call.event_id].price > 0

\* C7: every event starts WAITING and its status changes at most once: the only
\* transitions are WAITING -> FAILED and WAITING -> SUCCESS.
C7_StatusChangesOnce ==
  [][
     /\ \A event_id \in DOMAIN events :
          /\ event_id \in DOMAIN events'
          /\ events'[event_id].status # events[event_id].status
             => /\ events[event_id].status = WAITING
                /\ events'[event_id].status \in {FAILED, SUCCESS}
     /\ \A event_id \in DOMAIN events' \ DOMAIN events :
          events'[event_id].status = WAITING
  ]_vars

\* a FAILED event that a later join brought up to min_num participants has just
\* been claimed again, and is still FAILED
C7_Witness ==
  /\ call.op = "claim" /\ result = Ok
  /\ call.event_id \in DOMAIN events
  /\ LET event == events[call.event_id] IN
       /\ event.status = FAILED
       /\ transfers = <<>>
       /\ Len(event.cur_participants) >= event.min_num
       /\ block_timestamp >= event.deadline

\* C8: a claim on a WAITING event at a block time below the deadline issues no
\* transfer and leaves the status WAITING and the participants as they were,
\* whatever their number.
C8_ClaimBeforeDeadlineIsNoOp ==
  [][\A event_id \in DOMAIN events :
       (/\ events[event_id].status = WAITING
        /\ block_timestamp < events[event_id].deadline
        /\ claim(event_id))
       => /\ transfers' = <<>>
          /\ events'[event_id].status = WAITING
          /\ events'[event_id].cur_participants = Participants(event_id)
          /\ UNCHANGED ledger]_vars

\* a claim has just been made before the deadline on an event with participants
C8_Witness ==
  /\ call.op = "claim" /\ result = Ok /\ transfers = <<>>
  /\ call.event_id \in DOMAIN events
  /\ LET event == events[call.event_id] IN
       /\ event.status = WAITING
       /\ block_timestamp < event.deadline
       /\ Len(event.cur_participants) >= event.min_num
       /\ Len(event.cur_participants) >= 1
       /\ paid[call.event_id] = <<>>

\* C9: no event has more than max_num participants; a join with the exact price by
\* an account that is not a participant, on an event that has max_num participants,
\* is rejected as EventFull and changes nothing.
C9_CapacityRespected ==
  [][
     /\ \A event_id \in DOMAIN events' :
          Len(events'[event_id].cur_participants) <= events'[event_id].max_num
     /\ \A event_id \in DOMAIN events, account_id \in Accounts :
          (/\ account_id \notin Range(Participants(event_id))
           /\ Len(Participants(event_id)) = events[event_id].max_num
           /\ join(event_id, account_id, events[event_id].price))
          => /\ result' = EventFull
             /\ transfers' = <<>>
             /\ UNCHANGED <<contract, ledger>>
  ]_vars

\* a join by a new account has just been rejected by an event whose two slots are
\* taken
C9_Witness ==
  /\ call.op = "join" /\ result = EventFull
  /\ call.event_id \in DOMAIN events
  /\ LET event == events[call.event_id] IN
       /\ event.max_num = 2
       /\ Len(event.cur_participants) = event.max_num
       /\ call.account_id \notin Range(event.cur_participants)
       /\ deposited[call.event_id] = 2 * event.price

\* C10: no participant list holds an account twice; a join with the exact price by
\* an account that is already a participant is rejected as AlreadyJoined and leaves
\* len(participants) and the participant index as they were.
C10_ParticipantsUnique ==
  [][
     /\ \A event_id \in DOMAIN events' :
          \A i, j \in 1..Len(events'[event_id].cur_participants) :
            events'[event_id].cur_participants[i] = events'[event_id].cur_participants[j]
            => i = j
     /\ \A event_id \in DOMAIN events, account_id \in Accounts :
          (/\ account_id \in Range(Participants(event_id))
           /\ join(event_id, account_id, events[event_id].price))
          => /\ result' = AlreadyJoined
             /\ Len(events'[event_id].cur_participants) = Len(Participants(event_id))
             /\ events_by_participants' = events_by_participants
  ]_vars

\* the second of two participants has just tried to join again with the price
C10_Witness ==
  /\ call.op = "join" /\ result = AlreadyJoined
  /\ call.event_id \in DOMAIN events
  /\ LET event == events[call.event_id] IN
       /\ Len(event.cur_participants) = 2
       /\ event.cur_participants[2] = call.account_id
       /\ GetOrEmpty(events_by_participants, call.account_id) = <<call.event_id>>

\* C11: a join whose deposit differs from the event's price, lower or higher, is
\* rejected as WrongDeposit and leaves that event, the participant index and every
\* other event as they were; every account entered a participant list by a join
\* whose deposit was the price exactly.
C11_WrongDepositRejected ==
  [][
     /\ \A event_id \in DOMAIN events, account_id \in Accounts, deposit \in Deposits :
          (deposit # events[event_id].price /\ join(event_id, account_id, deposit))
          => /\ result' = WrongDeposit
             /\ transfers' = <<>>
             /\ UNCHANGED <<contract, ledger>>
     /\ \A event_id \in DOMAIN events :
          events'[event_id].cur_participants # Participants(event_id)
          => /\ call'.op = "join" /\ call'.event_id = event_id
             /\ events'[event_id].cur_participants =
                  Append(Participants(event_id), call'.account_id)
             /\ deposited'[event_id] - deposited[event_id] = events[event_id].price
  ]_vars

\* a join has just been rejected for its deposit, by one of two events that both
\* have a participant, the account being no participant of it
C11_Witness ==
  /\ call.op = "join" /\ result = WrongDeposit
  /\ Len(event_ids) = 2
  /\ call.event_id \in DOMAIN events
  /\ call.account_id \notin Range(Participants(call.event_id))
  /\ \A event_id \in DOMAIN events :
       /\ Len(Participants(event_id)) = 1
       /\ deposited[event_id] = events[event_id].price

\* every id an index or the id list holds is a key of events
IndexedIdsExist ==
  /\ Range(event_ids) \subseteq DOMAIN events
  /\ \A account_id \in DOMAIN events_by_owner :
       Range(events_by_owner[account_id]) \subseteq DOMAIN events
  /\ \A account_id \in DOMAIN events_by_participants :
       Range(events_by_participants[account_id]) \subseteq DOMAIN events

\* the ids of the form event_k that are no key of events
UnknownIds == {EventIdOf(k) : k \in 0..MaxEvents} \ DOMAIN events

\* C12: every event id in event_ids, in an events_by_owner entry or in an
\* events_by_participants entry is a key of events; a join or a claim on an id that
\* is no key of events fails (NotFound) and changes no state.
C12_IndexesPointToEvents ==
  /\ []IndexedIdsExist
  /\ [][
        /\ \A event_id \in UnknownIds, account_id \in Accounts, deposit \in Deposits :
             join(event_id, account_id, deposit)
             => result' = NotFound /\ transfers' = <<>> /\ UNCHANGED <<contract, ledger>>
        /\ \A event_id \in UnknownIds :
             claim(event_id)
             => result' = NotFound /\ transfers' = <<>> /\ UNCHANGED <<contract, ledger>>
     ]_vars

\* a join on an id that does not exist has just failed, one event existing and
\* both indexes holding it
C12_Witness ==
  /\ call.op = "join" /\ result = NotFound
  /\ call.event_id \notin DOMAIN events
  /\ event_ids = <<"event_0">>
  /\ \E account_id \in DOMAIN events_by_owner :
       events_by_owner[account_id] = <<"event_0">>
  /\ \E account_id \in DOMAIN events_by_participants :
       events_by_participants[account_id] = <<"event_0">>

\* C13: the k-th start_event, counted from 0, returns "event_k": ids are pairwise
\* distinct, start_event overwrites no event, get_all_events lists the ids in
\* creation order, and the new event is stored WAITING with no participant and is
\* appended to its creator's owner index.
C13_IdsCountCreations ==
  /\ [](/\ \A i, j \in 1..Len(get_all_events) :
             get_all_events[i] = get_all_events[j] => i = j
        /\ \A i \in 1..Len(get_all_events) :
             get_all_events[i] = "event_" \o ToString(i - 1)
        /\ Len(get_all_events) >= 1 => get_all_events[1] = "event_0"
        /\ Len(get_all_events) >= 2 => get_all_events[2] = "event_1")
  /\ [][
        \* start_event, and nothing else, adds to event_ids
        event_ids' # event_ids
          => LET event_id == call'.event_id
                 account_id == call'.account_id
             IN
             /\ call'.op = "start_event" /\ result' = Ok
             /\ event_id = "event_" \o ToString(Len(event_ids))
             /\ event_id \notin DOMAIN events
             /\ get_all_events' = Append(get_all_events, event_id)
             /\ DOMAIN events' = DOMAIN events \cup {event_id}
             /\ \A other \in DOMAIN events : events'[other] = events[other]
             /\ events'[event_id].status = WAITING
             /\ events'[event_id].cur_participants = <<>>
             /\ events'[event_id].owner = account_id
             /\ GetOrEmpty(events_by_owner', account_id) =
                  Append(get_events_by_owner(account_id), event_id)
             /\ \A other \in Accounts \ {account_id} :
                  GetOrEmpty(events_by_owner', other) = get_events_by_owner(other)
     ]_vars

\* the second start_event has just returned event_1 to the creator of event_0,
\* event_0 having a participant by then
C13_Witness ==
  /\ call.op = "start_event" /\ call.event_id = "event_1"
  /\ get_all_events = <<"event_0", "event_1">>
  /\ get_events_by_owner(call.account_id) = <<"event_0", "event_1">>
  /\ Len(Participants("event_0")) = 1
  /\ events["event_1"].status = WAITING /\ Participants("event_1") = <<>>

\* C14: every stored event has min_num <= max_num, start_event rejecting as an
\* invalid spec, with no event and no index entry created, a spec whose min_num
\* exceeds its max_num.
C14_MinAtMostMax ==
  \A event_id \in DOMAIN events :
    events[event_id].min_num <= events[event_id].max_num

\* C15: once block time reaches the deadlines and claim keeps being invoked, every
\* created event leaves WAITING for FAILED or SUCCESS, whatever its participant
\* count (zero included) and its min_num and max_num.
C15_EveryEventResolves ==
  \A k \in 0..(MaxEvents - 1) :
    (EventIdOf(k) \in DOMAIN events)
      ~> (EventIdOf(k) \in DOMAIN events /\ Closed(EventIdOf(k)))

\* C16: a join that violates several preconditions reports the first failing one in
\* the order: status not WAITING (EventClosed), deposit other than the price
\* (WrongDeposit), account already a participant (AlreadyJoined), participant list
\* at max_num (EventFull).
C16_FirstFailingCheckReported ==
  [][
     \A event_id \in DOMAIN events, account_id \in Accounts, deposit \in Deposits :
       join(event_id, account_id, deposit)
       => result' =
            IF events[event_id].status # WAITING THEN "EventClosed"
            ELSE IF deposit # events[event_id].price THEN WrongDeposit
            ELSE IF account_id \in Range(Participants(event_id)) THEN AlreadyJoined
            ELSE IF Len(Participants(event_id)) >= events[event_id].max_num THEN EventFull
            ELSE Ok
  ]_vars

\* C17: a successful join appends the account as the last participant and keeps the
\* earlier participants in their order; it changes nothing else of that event, nothing
\* of any other event and issues no transfer; a later FAILED resolution refunds in
\* the order of joining.
C17_JoinAppendsInOrder ==
  [][
     /\ \A event_id \in DOMAIN events, account_id \in Accounts :
          \* the receipt of a successful join(event_id, account_id, ..), its
          \* deposit kept
          (/\ call' = Call("join", event_id, account_id) /\ result' = Ok
           /\ deposited' # deposited)
          => /\ events'[event_id] =
                  [events[event_id] EXCEPT !.cur_participants = Append(@, account_id)]
             /\ DOMAIN events' = DOMAIN events
             /\ \A other \in DOMAIN events \ {event_id} : events'[other] = events[other]
             /\ transfers' = <<>>
             /\ paid' = paid
     /\ \A event_id \in DOMAIN events :
          /\ SubSeq(events'[event_id].cur_participants, 1, Len(Participants(event_id)))
               = Participants(event_id)
          /\ (events[event_id].status = WAITING /\ events'[event_id].status = FAILED)
             => /\ Len(transfers') = Len(Participants(event_id))
                /\ \A i \in 1..Len(transfers') :
                     transfers'[i] =
                       Transfer(Participants(event_id)[i], events[event_id].price)
  ]_vars

\* a join has just made its account the second participant of one of two events,
\* the other event having a participant too
C17_Witness ==
  /\ call.op = "join" /\ result = Ok
  /\ Len(event_ids) = 2
  /\ call.event_id \in DOMAIN events
  /\ Len(Participants(call.event_id)) = 2
  /\ Participants(call.event_id)[2] = call.account_id
  /\ \A event_id \in DOMAIN events : Len(Participants(event_id)) >= 1

\* C18: the status a claim stored does not depend on what becomes of the transfers
\* it issued: when such a transfer fails the status stays FAILED or SUCCESS, and
\* no later claim issues that transfer again.
C18_StatusIndependentOfTransfers ==
  [][
     \A event_id \in DOMAIN refused :
       \* a transfer of event_id fails in this step
       /\ refused'[event_id] # refused[event_id]
          => /\ Closed(event_id)
             /\ UNCHANGED <<contract, paid, transfers>>
       \* a transfer of event_id has failed before this step
       /\ refused[event_id] # {}
          => /\ Closed(event_id)
             /\ events'[event_id].status = events[event_id].status
             /\ paid'[event_id] = paid[event_id]
             /\ transfers' \in {transfers, <<>>}
  ]_vars

\* a transfer of a positive amount issued for a resolved event has failed, and the
\* last call is a claim on that event that issued nothing
C18_Witness ==
  /\ call.op = "claim" /\ result = Ok /\ transfers = <<>>
  /\ call.event_id \in DOMAIN events
  /\ Closed(call.event_id)
  /\ \E i \in refused[call.event_id] : paid[call.event_id][1][i].amount > 0

\* C19: an event id occurs in the participant index entry of an account exactly
\* when the account is in the participant list of that event, and then once; it
\* occurs in the owner index entry of an account, once, exactly when the account
\* is the owner of that event.
C19_IndexesMatchEvents ==
  \A account_id \in Accounts, event_id \in DOMAIN events :
    /\ Cardinality({i \in 1..Len(get_events_by_participants(account_id)) :
                      get_events_by_participants(account_id)[i] = event_id})
         = IF account_id \in Range(Participants(event_id)) THEN 1 ELSE 0
    /\ Cardinality({i \in 1..Len(get_events_by_owner(account_id)) :
                      get_events_by_owner(account_id)[i] = event_id})
         = IF events[event_id].owner = account_id THEN 1 ELSE 0

\* one account owns two events and takes part in both, another owns none and
\* takes part in none
C19_Witness ==
  /\ Len(event_ids) = 2
  /\ \E account_id \in Accounts :
       /\ Len(get_events_by_owner(account_id)) = 2
       /\ Len(get_events_by_participants(account_id)) = 2
       /\ \A event_id \in DOMAIN events :
            account_id \in Range(Participants(event_id))
  /\ \E account_id \in Accounts :
       /\ get_events_by_owner(account_id) = <<>>
       /\ get_events_by_participants(account_id) = <<>>

====
